---- MODULE Spec2Model ----
(***************************************************************************)
(* Training engine of the neural-network trainer: the worker thread        *)
(* (train_neural_network, nnawaw/src/main.rs) and the UI thread            *)
(* (NeuralNetworkApp::update, rust-nn-qt/src/frontend_new.rs) sharing the  *)
(* lock-guarded TrainingData ("RunState").                                 *)
(*                                                                         *)
(* Numbers are fixed point: a loss is in thousandths, an accuracy in       *)
(* thousandths of a percent (100% = 100000).                               *)
(*                                                                         *)
(* The numeric content of a run (dataset and random initial weights) is    *)
(* abstracted to a seed.  The parameters are represented by the number of  *)
(* gradient updates applied to them (wver); a forward pass over them       *)
(* yields a prediction, represented by the version it was computed from,   *)
(* the number of thresholded predictions that match the labels, and its    *)
(* cross entropy against the labels.                                       *)
(*                                                                         *)
(* Every step of a thread is one critical section on the TrainingData      *)
(* mutex together with the thread-local code that precedes it.             *)
(***************************************************************************)
EXTENDS Integers, Sequences, FiniteSets, TLC

\* ------------------------------------------------------------- bounds
MaxRuns == 3
MaxEpochsExplored == 101
NSamples == 2

\* --------------------------------------------------- program constants
LOG_INTERVAL == 100
MinEpochs == 100
DefaultEpochs == 1000
MaxLossMilli == 700

Seeds == {0, 1}
Runs == 1..MaxRuns
EpochChoices == MinEpochs..MaxEpochsExplored

\* td      the shared TrainingData
\* config  the shared NetworkConfig
\* ui      the UI thread's position in its frame
\* worker  the locals of each spawned training thread, by run number
\* nruns   the number of runs started
\* stopReq history of the current run: whether a stop was confirmed since it
\*         started and, if so, how far the worker was at the first confirmation
\* ld      load_data run on its own: the input file and the result
\* lk      the lock-level model of the two threads' critical sections
VARIABLES td, config, ui, worker, nruns, stopReq, ld, lk

vars == <<td, config, ui, worker, nruns, stopReq, ld, lk>>

Min(a, b) == IF a < b THEN a ELSE b
Max(a, b) == IF a > b THEN a ELSE b

\* ------------------------------------------------------- numeric core
\* Number of thresholded predictions equal to their label, for the
\* parameters after `ver` updates.  Seed 0: the labels are never matched
\* (load_data does not require labels to be 0 or 1).
CorrectOf(seed, ver) ==
    IF seed = 0 THEN 0 ELSE 1 + (ver % NSamples)

\* Cross entropy of the forward pass over the parameters after `ver` updates.
\* Seed 0: every prediction stays on the wrong side of 0.5 but close to it
\* (the initial weights are small), so the loss stays just above ln 2.
LossOf(seed, ver) ==
    IF seed = 0 THEN 699 - (ver \div 25) ELSE 650 - 3 * ver

\* z1, a1, z2, y_pred of the parameters after `ver` updates.
Forward(seed, ver) ==
    [ver |-> ver, correct |-> CorrectOf(seed, ver), bce |-> LossOf(seed, ver)]

\* final_pred before any epoch: all zeros.
ZeroPred(seed) ==
    [ver |-> -1, correct |-> IF seed = 0 THEN 0 ELSE 1, bce |-> 0]

binary_cross_entropy(y_pred) == y_pred.bce

\* (correct as f64 / n_samples as f64) * 100.0
Accuracy(y_pred) == (y_pred.correct * 100000) \div NSamples

\* The -1.0 passed by the worker when no accuracy was computed.
NoAccuracy == 0 - 1000

\* ---------------------------------------------------------- frontend
TrainingData_new ==
    [epoch |-> 0, loss |-> 0, accuracy |-> 0,
     training_in_progress |-> FALSE, completed |-> FALSE,
     should_stop |-> FALSE, show_stop_confirm |-> FALSE,
     losses |-> <<>>, accuracies |-> <<>>]

reset(data) ==
    [data EXCEPT !.epoch = 0, !.loss = 0, !.accuracy = 0,
                 !.training_in_progress = TRUE, !.completed = FALSE,
                 !.should_stop = FALSE, !.show_stop_confirm = FALSE,
                 !.losses = <<>>, !.accuracies = <<>>]

estimate_accuracy(loss) ==
    Max(((MaxLossMilli - Min(loss, MaxLossMilli)) * 100000) \div MaxLossMilli, 0)

\* As update_progress, appending to the accuracy history only an accuracy the
\* worker computed.
update_progress_ComputedOnly(data, epoch, loss, accuracy) ==
    [data EXCEPT !.epoch = epoch, !.loss = loss,
                 !.accuracy = IF accuracy > 0 THEN accuracy ELSE @,
                 !.losses = Append(@, loss),
                 !.accuracies = IF accuracy > 0 THEN Append(@, accuracy) ELSE @]

update_progress(data, epoch, loss, accuracy) ==
    LET acc == IF accuracy > 0 THEN accuracy ELSE estimate_accuracy(loss)
    IN [data EXCEPT !.epoch = epoch, !.loss = loss, !.accuracy = acc,
                    !.losses = Append(@, loss),
                    !.accuracies = Append(@, acc)]

training_completed(data, accuracy) ==
    [data EXCEPT !.completed = TRUE, !.training_in_progress = FALSE,
                 !.should_stop = FALSE, !.accuracy = accuracy]

\* ------------------------------------------------------------- worker
\* The locals of one train_neural_network call.
NoWorker ==
    [pc |-> "none", epoch |-> 0, epochs |-> 0, seed |-> 0, wver |-> 0,
     losses |-> <<>>, final_pred |-> ZeroPred(0), calls |-> <<>>]

\* A thread that has returned: its locals are gone.
Exited == [NoWorker EXCEPT !.pc = "exited"]

\* The thread has returned: Ok(()) from the stop branch or after the loop, or
\* an error from load_data or from plot_loss.
Returned == {"ret_stop", "ret_end", "err_load", "err_plot_stop", "err_plot_end"}

\* thread::spawn of the train callback.
Spawned == [NoWorker EXCEPT !.pc = "config"]

\* `for epoch in 0..epochs`: the next iteration, or the code after the loop.
LoopTop(epoch, epochs) == IF epoch < epochs THEN "check" ELSE "plot_end"

ReadShouldStop_EveryOther(data, wk) == data.should_stop /\ wk.epoch % 2 = 0

\* The stop flag as the worker reads it at the top of an iteration.
ReadShouldStop(data, wk) == data.should_stop

StopAccuracy_Stale(wk) == Accuracy(wk.final_pred)

\* Accuracy reported on an early stop: a forward pass over the current weights.
StopAccuracy(wk) == Accuracy(Forward(wk.seed, wk.wver))

\* Accuracy passed to update_progress for the epoch just computed.
ProgressAccuracy(wk) ==
    IF wk.epoch % LOG_INTERVAL = 0 \/ wk.epoch = wk.epochs - 1
    THEN Accuracy(wk.final_pred)
    ELSE NoAccuracy

\* As FinalAccuracy, from a forward pass over the parameters after the loop.
FinalAccuracy_Fresh(wk) == Accuracy(Forward(wk.seed, wk.wver))

\* Accuracy reported after the loop: thresholded final_pred.
FinalAccuracy(wk) == Accuracy(wk.final_pred)

CallProgress(epoch, loss, accuracy) ==
    [op |-> "update_progress", epoch |-> epoch, loss |-> loss, accuracy |-> accuracy]
CallCompleted(accuracy) ==
    [op |-> "training_completed", accuracy |-> accuracy]
CallPlot(losses, epochs) ==
    [op |-> "plot_loss", losses |-> losses, epochs |-> epochs]

\* As EpochCompute, reporting progress only on the epochs whose accuracy is
\* computed.
EpochCompute_ReportPeriodically(wk) ==
    LET y_pred == Forward(wk.seed, wk.wver)
        logged == wk.epoch % LOG_INTERVAL = 0 \/ wk.epoch = wk.epochs - 1
    IN [wk EXCEPT !.losses = Append(@, binary_cross_entropy(y_pred)),
                  !.wver = @ + 1,
                  !.final_pred = y_pred,
                  !.epoch = IF logged THEN @ ELSE @ + 1,
                  !.pc = IF logged THEN "report" ELSE LoopTop(wk.epoch + 1, wk.epochs)]

\* One epoch's forward pass, loss, backward pass and parameter update; the
\* epoch's progress report is pending.
EpochCompute(wk) ==
    LET y_pred == Forward(wk.seed, wk.wver)
    IN [wk EXCEPT !.losses = Append(@, binary_cross_entropy(y_pred)),
                  !.wver = @ + 1,
                  !.final_pred = y_pred,
                  !.pc = "report"]

\* Reads the configuration.
WConfig(w) ==
    /\ worker[w].pc = "config"
    /\ worker' = [worker EXCEPT ![w].epochs = config.epochs, ![w].pc = "load"]
    /\ UNCHANGED <<td, config, ui, nruns, stopReq, ld, lk>>

\* load_data and the initialisation of the parameters; load_data may fail.
WLoad(w) ==
    /\ worker[w].pc = "load"
    /\ \/ worker' = [worker EXCEPT ![w].pc = "err_load"]
       \/ \E seed \in Seeds :
             worker' = [worker EXCEPT
                           ![w].seed = seed, ![w].wver = 0, ![w].losses = <<>>,
                           ![w].final_pred = ZeroPred(seed), ![w].epoch = 0,
                           ![w].pc = LoopTop(0, worker[w].epochs)]
    /\ UNCHANGED <<td, config, ui, nruns, stopReq, ld, lk>>

\* Top of an iteration: the stop check, then either the stop branch or the
\* epoch's computation.
WCheck(w) ==
    /\ worker[w].pc = "check"
    /\ LET wk == worker[w]
       IN worker' = [worker EXCEPT ![w] =
                        IF ReadShouldStop(td, wk)
                        THEN [wk EXCEPT !.pc = IF wk.epoch > 0 THEN "stop_some"
                                                               ELSE "stop_zero"]
                        ELSE EpochCompute(wk)]
    /\ UNCHANGED <<td, config, ui, nruns, stopReq, ld, lk>>

\* update_progress for the epoch just computed; the loop advances.
WReport(w) ==
    /\ worker[w].pc = "report"
    /\ LET wk == worker[w]
           loss == wk.losses[Len(wk.losses)]
           accuracy == ProgressAccuracy(wk)
       IN /\ td' = update_progress(td, wk.epoch, loss, accuracy)
          /\ worker' = [worker EXCEPT
                           ![w].calls = Append(@, CallProgress(wk.epoch, loss, accuracy)),
                           ![w].epoch = wk.epoch + 1,
                           ![w].pc = LoopTop(wk.epoch + 1, wk.epochs)]
    /\ UNCHANGED <<config, ui, nruns, stopReq, ld, lk>>

StopPlot_None(wk) == <<>>

\* The plot_loss call of the early-stop branch.
StopPlot(wk) ==
    IF wk.losses # <<>> THEN <<CallPlot(wk.losses, wk.epochs)>> ELSE <<>>

\* The plot_loss call after the loop.
EndPlot(wk) == CallPlot(wk.losses, wk.epochs)

\* Early stop after at least one epoch: training_completed, then plot_loss
\* (which touches only the file system and may fail).
WStopSome(w) ==
    /\ worker[w].pc = "stop_some"
    /\ LET wk == worker[w]
           accuracy == StopAccuracy(wk)
           plotted == StopPlot(wk)
       IN /\ td' = training_completed(td, accuracy)
          /\ \E ok \in IF plotted = <<>> THEN {TRUE} ELSE BOOLEAN :
                worker' = [worker EXCEPT
                              ![w].calls = (@ \o <<CallCompleted(accuracy)>>) \o plotted,
                              ![w].pc = IF ok THEN "ret_stop" ELSE "err_plot_stop"]
    /\ UNCHANGED <<config, ui, nruns, stopReq, ld, lk>>

\* As MarkNotCompleted, also clearing the stop request.
MarkNotCompleted_ClearStop(data) ==
    [data EXCEPT !.training_in_progress = FALSE, !.completed = FALSE,
                 !.should_stop = FALSE]

\* The stop branch's writes when no epoch was executed.
MarkNotCompleted_AsCompleted(data) ==
    [data EXCEPT !.training_in_progress = FALSE, !.completed = TRUE]

MarkNotCompleted(data) ==
    [data EXCEPT !.training_in_progress = FALSE, !.completed = FALSE]

\* Early stop before any epoch.
WStopZero(w) ==
    /\ worker[w].pc = "stop_zero"
    /\ td' = MarkNotCompleted(td)
    /\ worker' = [worker EXCEPT ![w].pc = "ret_stop"]
    /\ UNCHANGED <<config, ui, nruns, stopReq, ld, lk>>

\* After the loop: plot_loss, which may fail.
WPlotEnd(w) ==
    /\ worker[w].pc = "plot_end"
    /\ \E ok \in BOOLEAN :
          worker' = [worker EXCEPT
                        ![w].calls = Append(@, EndPlot(worker[w])),
                        ![w].pc = IF ok THEN "complete" ELSE "err_plot_end"]
    /\ UNCHANGED <<td, config, ui, nruns, stopReq, ld, lk>>

\* After the loop: the final accuracy and training_completed.
WComplete(w) ==
    /\ worker[w].pc = "complete"
    /\ LET accuracy == FinalAccuracy(worker[w])
       IN /\ td' = training_completed(td, accuracy)
          /\ worker' = [worker EXCEPT
                           ![w].calls = Append(@, CallCompleted(accuracy)),
                           ![w].pc = "ret_end"]
    /\ UNCHANGED <<config, ui, nruns, stopReq, ld, lk>>

\* ----------------------------------------------------------------- UI
\* One frame of NeuralNetworkApp::update is a snapshot of TrainingData
\* (UIFrame), which decides what a click means, followed by the handler of
\* that click under its own lock (UIHandle).  At most one widget is clicked
\* per frame.
Buttons == {"train", "stop", "confirm", "cancel", "epochs"}

NoStopReq == [set |-> FALSE, nloss |-> 0, nprog |-> 0]

UIIdle == [pc |-> "idle", button |-> "none", click |-> "none", val |-> 0]

\* can_train
CanTrain(snapshot) == ~snapshot.training_in_progress

\* `if !data.training_in_progress` of the train handler.
MayStart(data) == ~data.training_in_progress

\* The flag a click raises, from the snapshot of this frame.
ClickOf(button, snapshot) ==
    CASE button = "train" -> IF CanTrain(snapshot) THEN "train_click" ELSE "none"
      [] button = "stop" -> IF snapshot.training_in_progress THEN "stop_click" ELSE "none"
      [] button = "confirm" -> "confirm_stop"
      [] button = "cancel" -> "cancel_stop"
      [] button = "epochs" -> "edit_epochs"

StartRun_NoReset(data) ==
    [data EXCEPT !.training_in_progress = TRUE, !.completed = FALSE, !.epoch = 0]

StartRun_NotInProgress(data) ==
    [(IF data.completed THEN reset(data) ELSE data)
        EXCEPT !.training_in_progress = FALSE, !.completed = FALSE, !.epoch = 0]

\* The train handler's writes to TrainingData.
StartRun(data) ==
    [(IF data.completed THEN reset(data) ELSE data)
        EXCEPT !.training_in_progress = TRUE, !.completed = FALSE, !.epoch = 0]

\* The snapshot and the widgets of one frame.
UIFrame ==
    /\ ui.pc = "idle"
    /\ \E button \in Buttons, val \in EpochChoices :
          \* the dialog's buttons exist only while the dialog is shown
          /\ button \in {"confirm", "cancel"} => td.show_stop_confirm
          \* the configuration widgets are disabled during a run
          /\ button = "epochs" => ~td.training_in_progress /\ val # config.epochs
          /\ button # "epochs" => val = MinEpochs
          \* exploration bounds on the runs started
          /\ (button = "train" /\ CanTrain(td)) =>
                (nruns < MaxRuns /\ config.epochs <= MaxEpochsExplored)
          /\ ui' = [pc |-> "frame", button |-> button,
                    click |-> ClickOf(button, td), val |-> val]
    /\ UNCHANGED <<td, config, worker, nruns, stopReq, ld, lk>>

\* The handlers at the end of the frame.
UIHandle ==
    /\ ui.pc = "frame"
    /\ ui' = UIIdle
    /\ UNCHANGED <<ld, lk>>
    /\ CASE ui.click = "confirm_stop" ->
              /\ td' = [td EXCEPT !.should_stop = TRUE, !.show_stop_confirm = FALSE]
              /\ stopReq' = IF stopReq.set \/ nruns = 0 THEN stopReq
                            ELSE [set |-> TRUE,
                                  nloss |-> Len(worker[nruns].losses),
                                  nprog |-> Len(td.losses)]
              /\ UNCHANGED <<config, worker, nruns>>
         [] ui.click = "cancel_stop" ->
              /\ td' = [td EXCEPT !.show_stop_confirm = FALSE]
              /\ UNCHANGED <<config, worker, nruns, stopReq>>
         [] ui.click = "edit_epochs" ->
              /\ config' = [config EXCEPT !.epochs = ui.val]
              /\ UNCHANGED <<td, worker, nruns, stopReq>>
         [] ui.click = "train_click" ->
              IF MayStart(td)
              THEN /\ nruns < MaxRuns
                   /\ td' = StartRun(td)
                   /\ nruns' = nruns + 1
                   /\ worker' = [w \in Runs |->
                                    IF w = nruns + 1 THEN Spawned
                                    ELSE IF worker[w].pc \in Returned
                                         THEN Exited ELSE worker[w]]
                   /\ stopReq' = NoStopReq
                   /\ UNCHANGED config
              ELSE UNCHANGED <<td, config, worker, nruns, stopReq>>
         [] ui.click = "stop_click" ->
              /\ td' = IF td.training_in_progress
                       THEN [td EXCEPT !.show_stop_confirm = TRUE] ELSE td
              /\ UNCHANGED <<config, worker, nruns, stopReq>>
         [] ui.click = "none" ->
              UNCHANGED <<td, config, worker, nruns, stopReq>>

\* No load_data input.
LdIdle == [pc |-> "idle"]

\* The three mutexes: the one around the NeuralNetworkApp handed to the
\* training threads, and the app's training_data and network_config.
Mutexes == {"app", "td", "cfg"}

\* Thread identities: the UI thread and the training thread of run w.
UIThread == <<"ui", 0>>
WorkerThread(w) == <<"worker", w>>
Free == <<"none", 0>>

\* The lock-level state after construction: every mutex unlocked, the UI
\* between two operations, no training thread.
LkInit ==
    [owner |-> [m \in Mutexes |-> Free],
     ui |-> [op |-> "idle", i |-> 1, snap |-> FALSE, start |-> FALSE],
     wk |-> [w \in Runs |-> [op |-> "none", i |-> 1, some |-> FALSE]],
     training_in_progress |-> FALSE,
     nruns |-> 0]

\* ------------------------------------------------------ specification
Init ==
    /\ td = TrainingData_new
    /\ config = [epochs |-> DefaultEpochs]
    /\ ui = UIIdle
    /\ worker = [w \in Runs |-> NoWorker]
    /\ nruns = 0
    /\ stopReq = NoStopReq
    /\ ld = LdIdle
    /\ lk = LkInit

Next ==
    \/ UIFrame
    \/ UIHandle
    \/ \E w \in Runs : WConfig(w)
    \/ \E w \in Runs : WLoad(w)
    \/ \E w \in Runs : WCheck(w)
    \/ \E w \in Runs : WReport(w)
    \/ \E w \in Runs : WStopSome(w)
    \/ \E w \in Runs : WStopZero(w)
    \/ \E w \in Runs : WPlotEnd(w)
    \/ \E w \in Runs : WComplete(w)

Spec == Init /\ [][Next]_vars

\* ----------------------------------------------------- dataset loader
\* A file is its lines; a line is a sequence of atoms: a separator character
\* ("," or ";") or a piece of text without separators.
MaxRows == 3

HeaderLines ==
    { <<"a", ",", "b">>, <<"a", ",", "b", ",", "c">>, <<"a", ";", "b">> }

RowLines ==
    { <<"1", ",", "0">>, <<" 2 ", ",", "1">>, <<"x", ",", "1">>,
      <<"1", ",", "2", ",", "0">>, <<"x">>, <<"1">>, <<"2", ";", "1">> }

RECURSIVE RowSeqs(_)
RowSeqs(n) ==
    IF n = 0 THEN { <<>> }
    ELSE RowSeqs(n - 1) \cup
         { Append(rs, r) : rs \in { q \in RowSeqs(n - 1) : Len(q) = n - 1 },
                           r \in RowLines }

Files ==
    { [exists |-> FALSE, header |-> <<>>, rows |-> <<>>] } \cup
    { [exists |-> TRUE, header |-> h, rows |-> rs] :
         h \in HeaderLines, rs \in RowSeqs(MaxRows) }

\* `if first_line.contains(';') { b';' } else { b',' }`
DetectDelimiter(first_line) ==
    IF \E i \in 1..Len(first_line) : first_line[i] = ";" THEN ";" ELSE ","

RECURSIVE SplitFrom(_, _, _, _)
SplitFrom(line, delimiter, i, field) ==
    IF i > Len(line) THEN <<field>>
    ELSE IF line[i] = delimiter
         THEN <<field>> \o SplitFrom(line, delimiter, i + 1, <<>>)
         ELSE SplitFrom(line, delimiter, i + 1, Append(field, line[i]))

\* The fields of one record, as the reader splits the line.
Record(line, delimiter) == SplitFrom(line, delimiter, 1, <<>>)

\* s.trim().parse::<f64>(): the value, or -1 for a parse error.  A field is
\* a number only if it is one piece of text that spells one.
ParseF64(field) ==
    IF Len(field) # 1 THEN -1
    ELSE CASE field[1] = "0" -> 0
           [] field[1] = "1" -> 1
           [] field[1] = "2" -> 2
           [] field[1] = " 2 " -> 2
           [] OTHER -> -1

\* record.iter().map(parse).collect::<Result<Vec<f64>, _>>(): the values, or
\* <<>> when a field does not parse (a record has at least one field).
ParseRecord(record) ==
    IF \E i \in 1..Len(record) : ParseF64(record[i]) = -1 THEN <<>>
    ELSE [i \in 1..Len(record) |-> ParseF64(record[i])]

LoadErr(kind) == [kind |-> kind, features |-> <<>>, labels |-> <<>>]

\* load_data.  The reader is built without flexible(true): a record whose
\* number of fields differs from the header's makes `result?` return the
\* reader's error.
load_data(file) ==
    IF ~file.exists THEN LoadErr("NotFound")
    ELSE
    LET delimiter == DetectDelimiter(file.header)
        width == Len(Record(file.header, delimiter))
        records == [i \in 1..Len(file.rows) |-> Record(file.rows[i], delimiter)]
        vals == SelectSeq([i \in 1..Len(records) |-> ParseRecord(records[i])],
                          LAMBDA v : v # <<>>)
        features == [i \in 1..Len(vals) |-> SubSeq(vals[i], 1, Len(vals[i]) - 1)]
        labels == [i \in 1..Len(vals) |-> vals[i][Len(vals[i])]]
    IN IF \E i \in 1..Len(records) : Len(records[i]) # width
       THEN LoadErr("Csv")
       ELSE IF features = <<>>
       THEN LoadErr("EmptyDataset")
       ELSE IF \E i \in 1..Len(features) : Len(features[i]) # Len(features[1])
       THEN LoadErr("InconsistentShape")
       ELSE [kind |-> "Ok", features |-> features, labels |-> labels]

\* load_data applied to one file.
LoadData ==
    /\ ld.pc = "input"
    /\ ld' = [ld EXCEPT !.pc = "done", !.result = load_data(ld.file)]
    /\ UNCHANGED <<td, config, ui, worker, nruns, stopReq, lk>>

InitLoad ==
    /\ td = TrainingData_new
    /\ config = [epochs |-> DefaultEpochs]
    /\ ui = UIIdle
    /\ worker = [w \in Runs |-> NoWorker]
    /\ nruns = 0
    /\ stopReq = NoStopReq
    /\ lk = LkInit
    /\ ld \in { [pc |-> "input", file |-> f, result |-> LoadErr("none")] : f \in Files }

NextLoad == LoadData

SpecLoad == InitLoad /\ [][NextLoad]_vars

\* ---------------------------------------------------------- mutexes
\* Every operation that touches a mutex, as the sequence of its lock and
\* unlock steps; a guard is unlocked where it goes out of scope.
Acq(m) == <<"acq", m>>
Rel(m) == <<"rel", m>>
Callback == <<"call", "train_callback">>

\* train_neural_network: the configuration block.
ConfigScript == <<Acq("app"), Acq("cfg"), Rel("cfg"), Rel("app")>>
\* train_neural_network: the stop check at the top of an iteration.
CheckScript == <<Acq("app"), Acq("td"), Rel("td"), Rel("app")>>
\* app.lock().unwrap().update_progress(..)
ReportScript == <<Acq("app"), Acq("td"), Rel("td"), Rel("app")>>
\* app.lock().unwrap().training_completed(..)
CompletedScript == <<Acq("app"), Acq("td"), Rel("td"), Rel("app")>>
\* train_neural_network: the stop branch when no epoch was executed.
MarkScript == <<Acq("app"), Acq("td"), Rel("td"), Rel("app")>>

\* update(): the snapshot, the dialog handlers, the displayed and the edited
\* configuration, the dataset handlers, the stop handler.
SnapshotScript == <<Acq("td"), Rel("td")>>
DialogScript == <<Acq("td"), Rel("td")>>
ConfigShowScript == <<Acq("cfg"), Rel("cfg")>>
ConfigEditScript == <<Acq("cfg"), Rel("cfg")>>
DatasetScript == <<Acq("td"), Rel("td")>>
StopScript == <<Acq("td"), Rel("td")>>

\* As TrainScript, the handler reaching the callback through the app mutex
\* while it holds training_data.
TrainScript_ThroughApp ==
    <<Acq("td"), Acq("app"), Callback, Rel("app"), Rel("td")>>

\* update(): the train handler; the guard is dropped before the callback.
TrainScript == <<Acq("td"), Rel("td"), Callback>>

UIOps == {"snapshot", "dialog", "config_show", "config_edit", "dataset",
          "train", "stop"}

LockScript(op) ==
    CASE op = "config" -> ConfigScript
      [] op = "check" -> CheckScript
      [] op = "report" -> ReportScript
      [] op = "completed" -> CompletedScript
      [] op = "mark" -> MarkScript
      [] op = "snapshot" -> SnapshotScript
      [] op = "dialog" -> DialogScript
      [] op = "config_show" -> ConfigShowScript
      [] op = "config_edit" -> ConfigEditScript
      [] op = "dataset" -> DatasetScript
      [] op = "train" -> TrainScript
      [] op = "stop" -> StopScript
      [] OTHER -> <<>>

Threads == {UIThread} \cup {WorkerThread(w) : w \in Runs}

ThreadState(t) == IF t = UIThread THEN lk.ui ELSE lk.wk[t[2]]

\* The step a thread executes next; <<"end", op>> between two operations.
NextStep(t) ==
    LET st == ThreadState(t)
        script == LockScript(st.op)
    IN IF st.i <= Len(script) THEN script[st.i] ELSE <<"end", st.op>>

Advance(l, t) ==
    IF t = UIThread THEN [l EXCEPT !.ui.i = @ + 1]
    ELSE [l EXCEPT !.wk[t[2]].i = @ + 1]

\* What the operation does to RunState's training_in_progress once it holds
\* training_data: the snapshot reads it, the train handler sets it if it
\* was clear and then starts a run, training_completed and the epoch-0 stop
\* branch clear it.
Locked(l, t, m) ==
    LET op == IF t = UIThread THEN l.ui.op ELSE l.wk[t[2]].op
    IN IF m # "td" THEN l
       ELSE CASE op = "snapshot" ->
                   [l EXCEPT !.ui.snap = l.training_in_progress]
              [] op = "train" ->
                   [l EXCEPT !.ui.start = ~l.training_in_progress,
                             !.training_in_progress = TRUE]
              [] op \in {"completed", "mark"} ->
                   [l EXCEPT !.training_in_progress = FALSE]
              [] OTHER -> l

\* mutex.lock(): the thread blocks until the mutex is unlocked (std Mutex
\* is not reentrant: a thread that holds it blocks too).
LkAcquire(t) ==
    /\ NextStep(t)[1] = "acq"
    /\ LET m == NextStep(t)[2]
       IN /\ lk.owner[m] = Free
          /\ lk' = Locked(Advance([lk EXCEPT !.owner[m] = t], t), t, m)
    /\ UNCHANGED <<td, config, ui, worker, nruns, stopReq, ld>>

\* A guard goes out of scope.
LkRelease(t) ==
    /\ NextStep(t)[1] = "rel"
    /\ lk' = Advance([lk EXCEPT !.owner[NextStep(t)[2]] = Free], t)
    /\ UNCHANGED <<td, config, ui, worker, nruns, stopReq, ld>>

\* The train handler's callback: thread::spawn of train_neural_network, if
\* the handler started a run.
LkCallback ==
    /\ NextStep(UIThread)[1] = "call"
    /\ IF lk.ui.start
       THEN lk' = [Advance(lk, UIThread) EXCEPT
                      !.nruns = lk.nruns + 1,
                      !.wk[lk.nruns + 1] = [op |-> "config", i |-> 1, some |-> FALSE]]
       ELSE lk' = Advance(lk, UIThread)
    /\ UNCHANGED <<td, config, ui, worker, nruns, stopReq, ld>>

\* The UI goes on to the next operation of a frame.  The configuration is
\* displayed during a run and editable outside one, as the frame's snapshot
\* saw it; a run is started only while run numbers are left.
LkUINext ==
    /\ NextStep(UIThread)[1] = "end"
    /\ \E op \in UIOps :
          /\ op = "config_show" => lk.ui.snap
          /\ op = "config_edit" => ~lk.ui.snap
          /\ op = "train" => lk.nruns < MaxRuns
          /\ lk' = [lk EXCEPT !.ui.op = op, !.ui.i = 1, !.ui.start = FALSE]
    /\ UNCHANGED <<td, config, ui, worker, nruns, stopReq, ld>>

\* The operations that can follow a worker operation in
\* train_neural_network: after the configuration, load_data fails or the
\* loop is entered; after a stop check, the stop branch or the epoch and
\* its report; after a report, the next stop check or the end of the loop,
\* where plot_loss fails or training_completed is called.
WorkerNextOps(st) ==
    CASE st.op = "config" -> {"check", "exited"}
      [] st.op = "check" -> {IF st.some THEN "completed" ELSE "mark", "report"}
      [] st.op = "report" -> {"check", "completed", "exited"}
      [] OTHER -> {"exited"}

LkWorkerNext(w) ==
    /\ lk.wk[w].op \notin {"none", "exited"}
    /\ NextStep(WorkerThread(w))[1] = "end"
    /\ \E op \in WorkerNextOps(lk.wk[w]) :
          lk' = [lk EXCEPT !.wk[w].op = op, !.wk[w].i = 1,
                           !.wk[w].some = @ \/ op = "report"]
    /\ UNCHANGED <<td, config, ui, worker, nruns, stopReq, ld>>

InitLocks ==
    /\ td = TrainingData_new
    /\ config = [epochs |-> DefaultEpochs]
    /\ ui = UIIdle
    /\ worker = [w \in Runs |-> NoWorker]
    /\ nruns = 0
    /\ stopReq = NoStopReq
    /\ ld = LdIdle
    /\ lk = LkInit

NextLocks ==
    \/ LkUINext
    \/ LkCallback
    \/ \E t \in Threads : LkAcquire(t)
    \/ \E t \in Threads : LkRelease(t)
    \/ \E w \in Runs : LkWorkerNext(w)

SpecLocks == InitLocks /\ [][NextLocks]_vars

\* ------------------------------------------------------------- claims
CallsOf(wk, op) == SelectSeq(wk.calls, LAMBDA c : c.op = op)

\* The loss history of a run with this seed after n epochs.
LossHistory(seed, n) == [i \in 1..n |-> LossOf(seed, i - 1)]

\* C1: a worker that sees the stop flag at the top of its first iteration
\* ends the run with training_in_progress = false and completed = false,
\* with its local loss history and RunState.losses empty, and without any
\* call of training_completed, update_progress or plot_loss.
C1_StopBeforeFirstEpoch ==
    \A w \in Runs :
       LET wk == worker[w]
       IN /\ wk.pc = "stop_zero" =>
                wk.epoch = 0 /\ wk.losses = <<>> /\ wk.calls = <<>> /\ td.losses = <<>>
          /\ (wk.pc = "ret_stop" /\ wk.epoch = 0) =>
                /\ ~td.training_in_progress /\ ~td.completed
                /\ wk.losses = <<>> /\ td.losses = <<>>
                /\ wk.calls = <<>>

\* A second or later run that was stopped before its first epoch.
C1_Witness ==
    \E w \in Runs :
       w > 1 /\ worker[w].pc = "ret_stop" /\ worker[w].epoch = 0 /\ ~td.training_in_progress

\* C2: when the worker sees the stop flag at the top of iteration k,
\* 1 <= k < epochs, training_completed is called once, with the accuracy of a
\* forward pass over the parameters after exactly k updates, both loss
\* histories have length k, and the call leaves completed = true and
\* training_in_progress = false.
C2_StopAfterKEpochs ==
    [][\A w \in Runs :
          (worker[w].pc = "stop_some" /\ worker'[w].pc # "stop_some") =>
             LET wk == worker[w]
                 k == wk.epoch
                 done == CallsOf(worker'[w], "training_completed")
             IN /\ 1 <= k /\ k < wk.epochs
                /\ wk.wver = k
                /\ Len(done) = 1
                /\ done[1].accuracy = Accuracy(Forward(wk.seed, k))
                /\ Len(wk.losses) = k /\ Len(td'.losses) = k
                /\ td'.completed /\ ~td'.training_in_progress
                /\ td'.accuracy = done[1].accuracy]_vars

\* A run stopped at the top of iteration 10.
C2_Witness ==
    \E w \in Runs :
       /\ worker[w].pc = "ret_stop" /\ worker[w].epoch = 10
       /\ td.completed /\ Len(td.losses) = 10

\* Epochs whose forward pass, backward pass and update the worker has done.
Executed(wk) == wk.wver

InLoopOrAfter ==
    {"check", "report", "stop_some", "stop_zero", "plot_end", "complete",
     "ret_stop", "ret_end", "err_plot_stop", "err_plot_end"}

\* C3 as stated: in every state of a run the worker's local loss history
\* and RunState.losses both have as many entries as epochs executed.
C3_Original ==
    \A w \in Runs :
       worker[w].pc \in InLoopOrAfter =>
          /\ Len(worker[w].losses) = Executed(worker[w])
          /\ Len(td.losses) = Executed(worker[w])

\* C3 amended: between iterations and after the loop both histories have as
\* many entries as epochs executed; while an epoch's progress report is
\* pending the local history has one entry more than RunState.losses; the
\* length is `epochs` at normal completion and less at an early stop.
C3_HistoryLength ==
    \A w \in Runs :
       LET wk == worker[w]
       IN /\ wk.pc \in InLoopOrAfter \ {"report"} =>
                /\ Len(wk.losses) = Executed(wk)
                /\ Len(td.losses) = Executed(wk)
                /\ wk.epoch = Executed(wk)
          /\ wk.pc = "report" =>
                /\ Len(wk.losses) = Executed(wk)
                /\ Len(td.losses) = Executed(wk) - 1
                /\ wk.epoch = Executed(wk) - 1
          /\ wk.pc \in {"plot_end", "complete", "ret_end", "err_plot_end"} =>
                Executed(wk) = wk.epochs
          /\ wk.pc \in {"stop_some", "stop_zero", "ret_stop", "err_plot_stop"} =>
                Executed(wk) < wk.epochs

\* A second run with an epoch's report pending, a run completed normally and
\* a run stopped early are all reached.
C3_Witness ==
    \E w \in Runs :
       /\ w > 1
       /\ worker[w].pc = "report"
       /\ Len(worker[w].losses) = 5 /\ Len(td.losses) = 4

\* C4: cancellation is cooperative.  An epoch whose computation is done is
\* reported whatever the stop flag is, and once a stop is confirmed during a
\* run the worker appends at most one more loss and emits at most one more
\* progress snapshot.
C4_AtMostOneMoreEpoch ==
    /\ [](stopReq.set /\ nruns > 0 =>
            /\ Len(worker[nruns].losses) <= stopReq.nloss + 1
            /\ Len(td.losses) <= stopReq.nprog + 1
            /\ Len(CallsOf(worker[nruns], "update_progress")) <= stopReq.nprog + 1)
    /\ [][\A w \in Runs :
             (worker[w].pc = "report" /\ worker'[w] # worker[w]) =>
                /\ worker'[w].epoch = worker[w].epoch + 1
                /\ Len(td'.losses) = Len(td.losses) + 1]_vars

\* A stop confirmed while an epoch was in flight: the epoch was reported and
\* the run stopped at the next check.
C4_Witness ==
    /\ nruns > 0
    /\ stopReq.set
    /\ worker[nruns].pc = "ret_stop"
    /\ Len(td.losses) = stopReq.nprog + 1
    /\ stopReq.nprog > 0

\* C5 as stated: a run that returns without error and during which no stop
\* was confirmed has executed all its epochs and is completed; a run ends
\* early only by a stop confirmed during that run.
C5_Claim ==
    \A w \in Runs :
       LET wk == worker[w]
       IN (wk.pc \in {"ret_stop", "ret_end"} /\ ~stopReq.set) =>
             /\ wk.pc = "ret_end"
             /\ Len(wk.losses) = wk.epochs
             /\ td.completed

\* C6 as stated: the train handler leaves RunState at its defaults whatever
\* the previous run's outcome was.
C6_Claim ==
    [][nruns' = nruns + 1 =>
          /\ td'.epoch = 0
          /\ td'.losses = <<>> /\ td'.accuracies = <<>>
          /\ ~td'.completed
          /\ ~td'.should_stop
          /\ td'.training_in_progress]_vars

\* C7 as stated: a run that aborts on a failure leaves RunState not completed
\* and not in progress.
C7_Claim ==
    \A w \in Runs :
       worker[w].pc \in {"err_load", "err_plot_stop", "err_plot_end"} =>
          ~td.completed /\ ~td.training_in_progress

Active ==
    {"config", "load", "check", "report", "stop_some", "stop_zero",
     "plot_end", "complete"}

\* C8: at most one worker thread is between its spawn and its return, and a
\* click on the train button while training_in_progress is true changes
\* neither RunState nor the workers.
C8_SingleRun ==
    /\ [](Cardinality({w \in Runs : worker[w].pc \in Active}) <= 1)
    /\ [][(ui' # ui /\ "train" \in {ui.button, ui'.button}
              /\ td.training_in_progress) =>
             /\ td' = td /\ worker' = worker /\ nruns' = nruns
             /\ ui'.click \in {"none"}]_vars

\* The train button was clicked during a run, while an epoch was in flight.
C8_Witness ==
    /\ ui.pc = "frame" /\ ui.button = "train" /\ ui.click = "none"
    /\ td.training_in_progress
    /\ nruns > 0 /\ worker[nruns].pc = "report" /\ worker[nruns].epoch = 3

\* update_progress was called once for each of the epochs 0..n-1, in order,
\* and training_completed once, after them.
ProgressThenCompleted(wk, n) ==
    LET progress == CallsOf(wk, "update_progress")
        notPlot == SelectSeq(wk.calls, LAMBDA c : c.op # "plot_loss")
    IN /\ Len(progress) = n
       /\ \A i \in 1..n : progress[i].epoch = i - 1
       /\ Len(CallsOf(wk, "training_completed")) = 1
       /\ Len(notPlot) = n + 1
       /\ notPlot[n + 1].op = "training_completed"

\* C9 as stated: every run that returns from the stop branch or after the
\* loop has called update_progress once per executed epoch, in order, and
\* then training_completed once.
C9_Original ==
    \A w \in Runs :
       worker[w].pc \in {"ret_stop", "ret_end"} =>
          ProgressThenCompleted(worker[w], worker[w].epoch)

\* C9 amended: so it is for every run that completes or is stopped after at
\* least one epoch; a run stopped before any epoch calls neither.
C9_CallbackProtocol ==
    \A w \in Runs :
       LET wk == worker[w]
       IN /\ (wk.pc = "ret_end" \/ (wk.pc \in {"ret_stop", "err_plot_stop"} /\ wk.epoch > 0)) =>
                /\ ProgressThenCompleted(wk, wk.epoch)
                /\ wk.epoch = Executed(wk)
          /\ (wk.pc = "ret_stop" /\ wk.epoch = 0) =>
                /\ CallsOf(wk, "update_progress") = <<>>
                /\ CallsOf(wk, "training_completed") = <<>>

\* A normally completed run of 101 epochs.
C9_Witness ==
    \E w \in Runs :
       /\ worker[w].pc = "ret_end" /\ worker[w].epochs = MinEpochs + 1
       /\ Len(CallsOf(worker[w], "update_progress")) = MinEpochs + 1

\* C10: a run that completes, or that is stopped after at least one epoch,
\* calls plot_loss exactly once, with the whole loss history (one entry per
\* executed epoch, in order) and the configured epochs; a run stopped before
\* any epoch never calls it.
C10_PlotOnce ==
    \A w \in Runs :
       LET wk == worker[w]
       IN /\ (wk.pc = "ret_end" \/ (wk.pc \in {"ret_stop", "err_plot_stop"} /\ wk.epoch > 0)) =>
                /\ CallsOf(wk, "plot_loss") =
                      <<CallPlot(LossHistory(wk.seed, wk.epoch), wk.epochs)>>
                /\ td.losses = LossHistory(wk.seed, wk.epoch)
                /\ wk.epoch = Executed(wk)
          /\ (wk.pc = "ret_stop" /\ wk.epoch = 0) =>
                CallsOf(wk, "plot_loss") = <<>>

\* A run stopped at the top of iteration 7 has plotted its 7 losses.
C10_Witness ==
    \E w \in Runs :
       /\ worker[w].pc = "ret_stop" /\ worker[w].epoch = 7
       /\ Len(CallsOf(worker[w], "plot_loss")) = 1

\* The records of a file as the loader splits them, and those whose fields
\* are all numbers.
DataRecords(file) ==
    [i \in 1..Len(file.rows) |->
        Record(file.rows[i], DetectDelimiter(file.header))]

IsNumeric(record) == \A i \in 1..Len(record) : ParseF64(record[i]) # -1

NumericRecords(file) == SelectSeq(DataRecords(file), IsNumeric)

SameWidth(records) ==
    \A i \in 1..Len(records) : Len(records[i]) = Len(records[1])

\* C11 as stated: for a file with a header and any mix of numeric and
\* non-numeric rows, load_data returns exactly the numeric rows in file
\* order, the label being the last column and the features the columns
\* before it (where C12 does not require an error).
C11_Claim ==
    (ld.pc = "done" /\ ld.file.exists) =>
       LET numeric == NumericRecords(ld.file)
       IN (numeric # <<>> /\ SameWidth(numeric)) =>
             /\ ld.result.kind = "Ok"
             /\ Len(ld.result.features) = Len(numeric)
             /\ Len(ld.result.labels) = Len(numeric)
             /\ \A i \in 1..Len(numeric) :
                   LET n == Len(numeric[i])
                   IN /\ ld.result.labels[i] = ParseF64(numeric[i][n])
                      /\ ld.result.features[i] =
                            [j \in 1..(n - 1) |-> ParseF64(numeric[i][j])]

\* C12 as stated: NotFound for a missing path, EmptyDataset when no row
\* survives parsing, InconsistentShape when a surviving row's width differs
\* from the first surviving row's, success otherwise.
C12_Claim ==
    ld.pc = "done" =>
       LET numeric == NumericRecords(ld.file)
       IN ld.result.kind =
             IF ~ld.file.exists THEN "NotFound"
             ELSE IF numeric = <<>> THEN "EmptyDataset"
             ELSE IF ~SameWidth(numeric) THEN "InconsistentShape"
             ELSE "Ok"

\* The epochs whose accuracy the worker computes.
Logged(epoch, epochs) == epoch % LOG_INTERVAL = 0 \/ epoch = epochs - 1

\* C13 as stated: the accuracy that update_progress records for epoch e (the
\* latest accuracy and the entry appended to the accuracy history) is the
\* thresholded accuracy of that epoch's predictions when e = 0, e is a
\* multiple of 100 or e = epochs - 1, and the loss-derived estimate on every
\* other epoch.
C13_Claim ==
    [][\A w \in Runs :
          (worker[w].pc = "report" /\ worker'[w].pc # "report") =>
             LET wk == worker[w]
                 y_pred == Forward(wk.seed, wk.epoch)
                 recorded == IF Logged(wk.epoch, wk.epochs)
                             THEN Accuracy(y_pred)
                             ELSE estimate_accuracy(binary_cross_entropy(y_pred))
             IN /\ td'.accuracy = recorded
                /\ td'.accuracies = Append(td.accuracies, recorded)]_vars

\* The fields of RunState that report the worker's progress.
WorkerOwned(data) ==
    <<data.epoch, data.loss, data.accuracy, data.losses, data.accuracies,
      data.completed>>

\* A step of the UI thread (a frame's snapshot or its handler), and a step
\* of a training thread.
UIStep == ui' # ui
WorkerStep == ui' = ui /\ worker' # worker

C15_FinalAccuracy ==
    \A w \in Runs :
       worker[w].pc = "ret_end" =>
          LET wk == worker[w]
              completed == CallsOf(wk, "training_completed")
              progress == CallsOf(wk, "update_progress")
              last == Accuracy(Forward(wk.seed, wk.epochs - 1))
          IN /\ td.completed /\ ~td.training_in_progress
             /\ Executed(wk) = wk.epochs
             /\ Len(completed) = 1
             /\ completed[1].accuracy = last
             /\ td.accuracy = last
             /\ Len(progress) = wk.epochs
             /\ progress[wk.epochs].epoch = wk.epochs - 1
             /\ progress[wk.epochs].accuracy = completed[1].accuracy

\* A run of 100 epochs has completed on a dataset whose accuracy differs
\* from one parameter version to the next.
C15_Witness ==
    \E w \in Runs :
       /\ worker[w].pc = "ret_end" /\ worker[w].epochs = 100
       /\ worker[w].seed = 1
       /\ Accuracy(Forward(1, 99)) # Accuracy(Forward(1, 100))

\* A frame's snapshot is taken: the step from idle to the frame's widgets
\* reads RunState once, under its lock.
SnapshotTaken == ui.pc = "idle" /\ ui'.pc = "frame"

\* C16: in every snapshot the UI takes of RunState the two histories have
\* the same length, epoch is the index of the last history entry when the
\* history is not empty, and training_in_progress and completed are not both
\* true.
C16_SnapshotConsistent ==
    [][SnapshotTaken =>
          /\ Len(td.losses) = Len(td.accuracies)
          /\ td.losses # <<>> => td.epoch = Len(td.losses) - 1
          /\ ~(td.training_in_progress /\ td.completed)]_vars

\* A frame whose snapshot was taken during a run with several epochs
\* reported, while the worker has an epoch computed and not yet reported.
C16_Witness ==
    /\ ui.pc = "frame"
    /\ td.training_in_progress /\ Len(td.losses) >= 2
    /\ \E w \in Runs :
          worker[w].pc = "report" /\ Len(worker[w].losses) = Len(td.losses) + 1

\* C17 as stated: should_stop is true only while a run is in progress.
C17_Claim == td.should_stop => td.training_in_progress

\* A thread is waiting for a mutex, and the thread that holds it.
Waiting(t) == NextStep(t)[1] = "acq" /\ lk.owner[NextStep(t)[2]] # Free
Blocker(t) == lk.owner[NextStep(t)[2]]

\* Following the holders from t for n hops meets only waiting threads.
RECURSIVE Stuck(_, _)
Stuck(t, n) == Waiting(t) /\ (n = 0 \/ Stuck(Blocker(t), n - 1))

Holds(t, m) == lk.owner[m] = t

\* C18: no interleaving of the UI thread and the training threads
\* deadlocks.  Every chain of threads waiting for one another ends at a
\* thread that is running inside an operation that unlocks what it holds
\* (no cycle, no thread waiting for a mutex it holds itself, no mutex held
\* between operations); a training thread holds training_data or
\* network_config only inside the app mutex; the UI never takes the app
\* mutex, holds at most one mutex, and holds none when it invokes the train
\* callback.
C18_NoDeadlock ==
    /\ [](/\ \A t \in Threads : ~Stuck(t, Cardinality(Threads))
          /\ \A t \in Threads :
                NextStep(t)[1] = "end" => \A m \in Mutexes : ~Holds(t, m)
          /\ \A w \in Runs :
                (Holds(WorkerThread(w), "td") \/ Holds(WorkerThread(w), "cfg"))
                   => Holds(WorkerThread(w), "app")
          /\ ~Holds(UIThread, "app")
          /\ ~(Holds(UIThread, "td") /\ Holds(UIThread, "cfg")))
    /\ [][NextStep(UIThread)[1] = "call" =>
             \A m \in Mutexes : ~Holds(UIThread, m)]_vars

\* The second training thread holds the app mutex and waits for
\* training_data, which the UI holds inside its train handler.
C18_Witness ==
    /\ Waiting(WorkerThread(2))
    /\ Holds(WorkerThread(2), "app")
    /\ Holds(UIThread, "td") /\ lk.ui.op = "train"

====
